---- MODULE Spec2Model ----
(***************************************************************************)
(* Model of renewal.py: the XServer VPS renewal run (XServerVPSRenewal)    *)
(* and the captcha recognition client (CaptchaSolver).                     *)
(*                                                                         *)
(* Text is modelled as a sequence of one-character strings (dates, codes,  *)
(* service responses) or of tokens (page content, addresses).  The Python  *)
(* value None and the empty string are both the empty sequence where the   *)
(* code only tests truthiness.  Japanese page texts are written as ASCII   *)
(* tokens; the comment at each token gives the original text.              *)
(***************************************************************************)
EXTENDS Integers, Sequences, FiniteSets, TLC

VARIABLES
    pc,               \* position of the single thread of control
    PROXY_SERVER,     \* Config.PROXY_SERVER (urlparse components, or NoProxy)
    RUNNER_IP,        \* Config.RUNNER_IP
    renewal_status,   \* self.renewal_status
    old_expiry_time,  \* self.old_expiry_time
    new_expiry_time,  \* self.new_expiry_time
    error_message,    \* self.error_message
    calls,            \* stages invoked so far in this run, in order
    ret,              \* return value of each stage, "unset" before it returns
    egress,           \* what the egress check of setup_browser observed
    gate,             \* what the eligibility gate of run() computed
    readme,           \* README.md as written by generate_readme (blocks)
    cache,            \* cache.json as written by save_cache
    notified,         \* messages handed to Notifier.notify
    submitted,        \* clicks on the submit control of the login / renewal form
    strategies,       \* strategies open_extend has tried, in order, and how each went
    ts,               \* complete_turnstile_verification: locals and effects
    cs,               \* CaptchaSolver.solve: locals and effects
    captcha_input,    \* value written into the captcha input of the form
    html,             \* page content read after the renewal form was submitted
    extend_content,   \* page content open_extend read at Config.EXTEND_URL
    captcha_img       \* what the search for the captcha image came to

vars == <<pc, PROXY_SERVER, RUNNER_IP, renewal_status, old_expiry_time,
          new_expiry_time, error_message, calls, ret, egress, gate, readme,
          cache, notified, submitted, strategies, ts, cs, captcha_input, html,
          extend_content, captcha_img>>

----------------------------------------------------------------------------
(* Text helpers *)

NoneVal == <<>>

Digits == {"0", "1", "2", "3", "4", "5", "6", "7", "8", "9"}

DigitVal(c) ==
    CASE c = "0" -> 0 [] c = "1" -> 1 [] c = "2" -> 2 [] c = "3" -> 3
      [] c = "4" -> 4 [] c = "5" -> 5 [] c = "6" -> 6 [] c = "7" -> 7
      [] c = "8" -> 8 [] c = "9" -> 9

IsDigits(s) == \A i \in 1..Len(s) : s[i] \in Digits

RECURSIVE StrToInt(_)
StrToInt(s) ==
    IF s = <<>> THEN 0
    ELSE 10 * StrToInt(SubSeq(s, 1, Len(s) - 1)) + DigitVal(s[Len(s)])

\* needle in hay (Python's substring test), on sequences
Contains(hay, needle) ==
    \E i \in 1..(Len(hay) - Len(needle) + 1) :
        SubSeq(hay, i, i + Len(needle) - 1) = needle

Whitespace == {" ", "\n"}

\* str.strip()
RECURSIVE Strip(_)
Strip(s) ==
    IF s = <<>> THEN s
    ELSE IF s[1] \in Whitespace THEN Strip(Tail(s))
    ELSE IF s[Len(s)] \in Whitespace THEN Strip(SubSeq(s, 1, Len(s) - 1))
    ELSE s

\* str.zfill(2)
Zfill2(s) == IF Len(s) < 2 THEN <<"0">> \o s ELSE s

\* str.split(sep) for a one-character separator
RECURSIVE Split(_, _)
Split(s, sep) ==
    IF ~(\E i \in 1..Len(s) : s[i] = sep) THEN <<s>>
    ELSE LET i == CHOOSE k \in 1..Len(s) :
                      s[k] = sep /\ \A j \in 1..(k - 1) : s[j] # sep
         IN  <<SubSeq(s, 1, i - 1)>> \o Split(SubSeq(s, i + 1, Len(s)), sep)

----------------------------------------------------------------------------
(* Calendar: datetime.date as its proleptic Gregorian ordinal *)

IsLeap(y) == y % 4 = 0 /\ (y % 100 # 0 \/ y % 400 = 0)

DaysInMonth(y, m) ==
    IF m = 2 THEN (IF IsLeap(y) THEN 29 ELSE 28)
    ELSE IF m \in {4, 6, 9, 11} THEN 30 ELSE 31

DaysBeforeYear(y) ==
    (y - 1) * 365 + ((y - 1) \div 4) - ((y - 1) \div 100) + ((y - 1) \div 400)

RECURSIVE DaysBeforeMonth(_, _)
DaysBeforeMonth(y, m) ==
    IF m = 1 THEN 0 ELSE DaysBeforeMonth(y, m - 1) + DaysInMonth(y, m - 1)

Ymd2Ord(y, m, d) == DaysBeforeYear(y) + DaysBeforeMonth(y, m) + d

\* datetime.datetime.strptime(s, "%Y-%m-%d").date(): ok is FALSE where
\* strptime raises ValueError
Strptime(s) ==
    LET f == Split(s, "-") IN
    IF /\ Len(f) = 3
       /\ Len(f[1]) = 4 /\ IsDigits(f[1])
       /\ Len(f[2]) \in 1..2 /\ IsDigits(f[2]) /\ StrToInt(f[2]) \in 1..12
       /\ Len(f[3]) \in 1..2 /\ IsDigits(f[3]) /\ StrToInt(f[3]) \in 1..31
       /\ StrToInt(f[1]) >= 1
       /\ StrToInt(f[3]) <= DaysInMonth(StrToInt(f[1]), StrToInt(f[2]))
    THEN [ok |-> TRUE,
          date |-> Ymd2Ord(StrToInt(f[1]), StrToInt(f[2]), StrToInt(f[3]))]
    ELSE [ok |-> FALSE, date |-> 0]

\* datetime.datetime.now(timezone(timedelta(hours=offset))).date(), the
\* clock being utcHours hours after the start of ordinal day 0 (UTC)
TodayAt(utcHours, offset) == (utcHours + offset) \div 24

JstOffset == 9

----------------------------------------------------------------------------
(* Run state and reporting *)

Statuses == {"Unknown", "Success", "Unexpired", "Failed"}

Stages == {"setup_browser", "login", "get_expiry", "open_extend",
           "complete_turnstile_verification", "submit_extend"}

\* str(e) of a caught exception: any text, the empty text included
ExcTexts == {"", "exc"}

\* generate_readme: the blocks of README.md.  A block of kind "h2" is a
\* status section heading, the "li" blocks after it are its items.
\*   "success"   = "## ✅ 续期成功"
\*   "unexpired" = "## ℹ️ 尚未到期"
\*   "failed"    = "## ❌ 续期失败"
Block(kind, text, value) == [kind |-> kind, text |-> text, value |-> value]

\* The sections without the branch for Unexpired
ReadmeSectionTwoWay(status, old, new, err) ==
    IF status = "Success" THEN
        << Block("h2", "success", NoneVal),
           Block("li", "old_expiry", old),
           Block("li", "new_expiry", new) >>
    ELSE
        << Block("h2", "failed", NoneVal),
           Block("li", "expiry", IF old = NoneVal THEN <<"unknown">> ELSE old),
           Block("li", "error", IF err \in {"None", ""} THEN <<"unknown">> ELSE <<err>>) >>

ReadmeSection(status, old, new, err) ==
    IF status = "Success" THEN
        << Block("h2", "success", NoneVal),
           Block("li", "old_expiry", old),
           Block("li", "new_expiry", new) >>
    ELSE IF status = "Unexpired" THEN
        << Block("h2", "unexpired", NoneVal),
           Block("li", "expiry", old) >>
    ELSE
        << Block("h2", "failed", NoneVal),
           Block("li", "expiry", IF old = NoneVal THEN <<"unknown">> ELSE old),
           Block("li", "error", IF err \in {"None", ""} THEN <<"unknown">> ELSE <<err>>) >>

generate_readme(status, old, new, err) ==
    << Block("h1", "title", NoneVal),
       Block("p", "run_time", NoneVal),
       Block("p", "vps_id", NoneVal) >>
    \o ReadmeSection(status, old, new, err)
    \o << Block("p", "last_update", NoneVal) >>

\* save_cache: the snapshot written to cache.json
save_cache(status, old) == [last_expiry |-> old, status |-> status, written |-> TRUE]

NoCache == [last_expiry |-> NoneVal, status |-> "None", written |-> FALSE]

----------------------------------------------------------------------------
(* Configuration: read from the environment when the class is defined *)

\* urlparse(PROXY_SERVER): scheme, hostname, port ("" / 0 where absent)
NoProxy == [set |-> FALSE, scheme |-> "", hostname |-> "", port |-> 0]

ProxyUrls ==
    { [set |-> TRUE, scheme |-> "socks5", hostname |-> "host", port |-> 1080],
      [set |-> TRUE, scheme |-> "socks5", hostname |-> "host", port |-> 0],
      [set |-> TRUE, scheme |-> "", hostname |-> "", port |-> 0] }

\* _build_playwright_proxy raises ValueError
ProxyMalformed(p) == p.scheme = "" \/ p.hostname = "" \/ p.port = 0

RunnerIps == { NoneVal, <<"ipA">> }

\* document.body.innerText of the address echo page
EchoBodies == { <<"ipA">>, <<"ipA", "\n">>, <<"ipB">> }

B(b) == IF b THEN "True" ELSE "False"

----------------------------------------------------------------------------
(* setup_browser *)

\* What the environment does to one call of setup_browser:
\*   start_raises  - async_playwright().start() raises
\*   launch_raises - launch / new_context / add_init_script / new_page /
\*                   stealth raises
\*   echo_raises   - the goto or evaluate of the address lookup raises
\*   body          - document.body.innerText of the echo page
SetupEnvs ==
    [start_raises : BOOLEAN, launch_raises : BOOLEAN, echo_raises : BOOLEAN,
     body : EchoBodies, exc : ExcTexts]

\* lookup: "raised" where the goto or evaluate of the address lookup raised
NoEgress == [observed |-> FALSE, browser_ip |-> NoneVal, lookup |-> "unset"]

\* The egress test with the comparison inverted
ProxyIneffectiveInverted(proxy, runner, browser_ip) ==
    proxy.set /\ runner # NoneVal /\ browser_ip # runner

\* The egress test of setup_browser: the proxy is ineffective
ProxyIneffective(proxy, runner, browser_ip) ==
    proxy.set /\ runner # NoneVal /\ browser_ip = runner

\* The handler of the address lookup giving up the setup
EgressLookupRaisedFatal(exc, err0) ==
    [ret |-> FALSE, error_message |-> exc,
     egress |-> [NoEgress EXCEPT !.lookup = "raised"]]

\* The handler of the address lookup: a warning is logged, then
\* setup_browser returns True
EgressLookupRaised(exc, err0) ==
    [ret |-> TRUE, error_message |-> err0,
     egress |-> [NoEgress EXCEPT !.lookup = "raised"]]

setup_browser(proxy, runner, env, err0) ==
    IF env.start_raises THEN
        [ret |-> FALSE, error_message |-> env.exc, egress |-> NoEgress]
    ELSE IF proxy.set /\ ProxyMalformed(proxy) THEN
        [ret |-> FALSE, error_message |-> "proxy_config_error", egress |-> NoEgress]
    ELSE IF env.launch_raises THEN
        [ret |-> FALSE, error_message |-> env.exc, egress |-> NoEgress]
    ELSE IF env.echo_raises THEN EgressLookupRaised(env.exc, err0)
    ELSE LET browser_ip == Strip(env.body) IN
        IF ProxyIneffective(proxy, runner, browser_ip) THEN
            [ret |-> FALSE, error_message |-> "proxy_ineffective",
             egress |-> [observed |-> TRUE, browser_ip |-> browser_ip,
                         lookup |-> "ok"]]
        ELSE
            [ret |-> TRUE, error_message |-> err0,
             egress |-> [observed |-> TRUE, browser_ip |-> browser_ip,
                         lookup |-> "ok"]]

----------------------------------------------------------------------------
(* login *)

\* The page URL after the login form was submitted, as path tokens
LoginUrls ==
    { <<"xapanel", "login", "xvps">>,
      <<"xapanel", "xvps/index">>,
      <<"xapanel", "login", "xvps/index">>,
      <<"xapanel", "Login", "mail">>,
      <<"xapanel", "server">> }

\* str.lower()
Lower(url) == [i \in 1..Len(url) |-> IF url[i] = "Login" THEN "login" ELSE url[i]]

\* raises: "none", "before" (goto or fill raises), "click" (the click on
\* the submit control raises), "after" (a later step raises)
LoginEnvs == [raises : {"none", "before", "click", "after"}, url : LoginUrls]

LoggedIn(url) ==
    Contains(url, <<"xvps/index">>) \/ ~Contains(Lower(url), <<"login">>)

\* login returning False without storing a message
login_silent(env, err0) ==
    IF env.raises # "none" THEN
        [ret |-> FALSE, error_message |-> err0,
         clicks |-> IF env.raises = "before" THEN 0 ELSE 1]
    ELSE IF LoggedIn(env.url) THEN
        [ret |-> TRUE, error_message |-> err0, clicks |-> 1]
    ELSE
        [ret |-> FALSE, error_message |-> err0, clicks |-> 1]

login(env, err0) ==
    IF env.raises # "none" THEN
        [ret |-> FALSE, error_message |-> "login_error",
         clicks |-> IF env.raises = "before" THEN 0 ELSE 1]
    ELSE IF LoggedIn(env.url) THEN
        [ret |-> TRUE, error_message |-> err0, clicks |-> 1]
    ELSE
        [ret |-> FALSE, error_message |-> "login_failed", clicks |-> 1]

----------------------------------------------------------------------------
(* get_expiry *)

Ch(a, b, c, d) == <<a, b, c, d>>

\* The match of /(\d{4})年(\d{1,2})月(\d{1,2})日/ in the expiry row of the
\* detail page, or no match
NoMatch == [found |-> FALSE, year |-> <<>>, month |-> <<>>, day |-> <<>>]

Match(y, m, d) == [found |-> TRUE, year |-> y, month |-> m, day |-> d]

ExpiryMatches ==
    { NoMatch,
      Match(Ch("2", "0", "2", "4"), <<"2">>, <<"2", "7">>),
      Match(Ch("2", "0", "2", "4"), <<"0", "2">>, <<"2", "8">>),
      Match(Ch("2", "0", "2", "4"), <<"2">>, <<"2", "9">>),
      Match(Ch("2", "0", "2", "4"), <<"3">>, <<"1">>),
      Match(Ch("2", "0", "2", "4"), <<"0", "3">>, <<"0", "2">>),
      Match(Ch("2", "0", "2", "4"), <<"0", "2">>, <<"3", "0">>),
      Match(Ch("2", "0", "2", "3"), <<"2">>, <<"2", "9">>),
      Match(Ch("2", "0", "2", "4"), <<"1", "3">>, <<"1">>),
      Match(Ch("2", "0", "2", "4"), <<"0">>, <<"1", "0">>),
      Match(Ch("2", "0", "2", "4"), <<"3">>, <<"0">>),
      Match(Ch("0", "0", "0", "1"), <<"1">>, <<"1">>),
      Match(Ch("0", "0", "0", "0"), <<"1">>, <<"1">>) }

ExpiryEnvs == [raises : BOOLEAN, match : ExpiryMatches]

FormatExpiry(m) ==
    m.year \o <<"-">> \o Zfill2(m.month) \o <<"-">> \o Zfill2(m.day)

get_expiry(env, old0) ==
    IF env.raises THEN [ret |-> FALSE, old_expiry_time |-> old0]
    ELSE IF env.match.found THEN
        [ret |-> TRUE, old_expiry_time |-> FormatExpiry(env.match)]
    ELSE [ret |-> FALSE, old_expiry_time |-> old0]

----------------------------------------------------------------------------
(* The eligibility gate of run() *)

\* The clock at the gate, in hours since the start of ordinal day 0 (UTC)
GateClocks ==
    { Ymd2Ord(2024, 2, d) * 24 + h : d \in {27, 28}, h \in {0, 14, 15, 23} }

\* The gate with the comparison made inclusive
GateDecisionInclusive(old, utcHours) ==
    IF old = NoneVal THEN "skip"
    ELSE LET today_jst == TodayAt(utcHours, JstOffset)
             parsed == Strptime(old)
         IN  IF ~parsed.ok THEN "raise"
             ELSE IF parsed.date - 1 < 1 THEN "raise"
             ELSE IF today_jst <= parsed.date - 1 THEN "unexpired"
             ELSE "eligible"

\* The gate treating an expiry text it cannot parse as not yet due
GateDecisionStrict(old, utcHours) ==
    IF old = NoneVal THEN "skip"
    ELSE LET today_jst == TodayAt(utcHours, JstOffset)
             parsed == Strptime(old)
         IN  IF ~parsed.ok THEN "unexpired"
             ELSE IF parsed.date - 1 < 1 THEN "raise"
             ELSE IF today_jst < parsed.date - 1 THEN "unexpired"
             ELSE "eligible"

\* The gate: "skip" (no expiry known), "raise" (strptime or the date
\* subtraction raises), "unexpired" (too early), "eligible"
GateDecision(old, utcHours) ==
    IF old = NoneVal THEN "skip"
    ELSE LET today_jst == TodayAt(utcHours, JstOffset)
             parsed == Strptime(old)
         IN  IF ~parsed.ok THEN "raise"
             ELSE IF parsed.date - 1 < 1 THEN "raise"
             ELSE IF today_jst < parsed.date - 1 THEN "unexpired"
             ELSE "eligible"

\* fresh: the gate has just run and clock is the time it read
NoGate == [decision |-> "unset", fresh |-> FALSE, clock |-> 0]

----------------------------------------------------------------------------
(* State after construction *)

NoRet == [s \in Stages |-> "unset"]

\* What one poll of the page reports
NoSignals == [hasToken |-> FALSE, hasSuccessText |-> FALSE, hasCheckmark |-> FALSE]

\* polls: evaluations of the page in the loop; slept: seconds slept in the
\* loop; seen: what the last poll reported
NoTs == [detected |-> "unset", clicked |-> FALSE, polls |-> 0, i |-> 0,
         max_wait |-> 0, token_at_timeout |-> "unset", slept |-> 0,
         seen |-> NoSignals]

NoCs == [imported |-> "unset", retry_count |-> 0, requests |-> 0, waited |-> 0,
         response |-> NoneVal, outcome |-> "unset", result |-> NoneVal,
         returned |-> FALSE]

NoHtml == [read |-> FALSE, content |-> <<>>]

Init ==
    /\ pc = "start"
    /\ PROXY_SERVER \in {NoProxy} \cup ProxyUrls
    /\ RUNNER_IP \in RunnerIps
    /\ renewal_status = "Unknown"
    /\ old_expiry_time = NoneVal
    /\ new_expiry_time = NoneVal
    /\ error_message = "None"
    /\ calls = <<>>
    /\ ret = NoRet
    /\ egress = NoEgress
    /\ gate = NoGate
    /\ readme = <<>>
    /\ cache = NoCache
    /\ notified = <<>>
    /\ submitted = [login |-> 0, renewal |-> 0]
    /\ strategies = <<>>
    /\ ts = NoTs
    /\ cs = NoCs
    /\ captcha_input = NoneVal
    /\ html = NoHtml
    /\ extend_content = NoHtml
    /\ captcha_img = "unset"

config == <<PROXY_SERVER, RUNNER_IP>>

----------------------------------------------------------------------------
(* run(): browser setup and login *)

\* run(): where control goes after setup_browser / login returned r
AfterSetup(r) == IF r THEN "login" ELSE "done"

\* run() without the return after a failed login
AfterLoginContinue(r) == "get_expiry"

\* run() trying the login again after it failed
AfterLoginRetry(r) == IF r THEN "get_expiry" ELSE "login"

AfterLogin(r) == IF r THEN "get_expiry" ELSE "done"

\* run(), step 1: setup_browser, and the exit when it returns False
RunSetupBrowser ==
    /\ pc = "start"
    /\ \E env \in SetupEnvs :
        LET r == setup_browser(PROXY_SERVER, RUNNER_IP, env, error_message) IN
        /\ calls' = Append(calls, "setup_browser")
        /\ ret' = [ret EXCEPT !["setup_browser"] = B(r.ret)]
        /\ egress' = r.egress
        /\ error_message' = r.error_message
        /\ pc' = AfterSetup(r.ret)
        /\ IF r.ret
           THEN UNCHANGED <<renewal_status, readme, notified>>
           ELSE /\ renewal_status' = "Failed"
                /\ readme' = generate_readme("Failed", old_expiry_time,
                                              new_expiry_time, r.error_message)
                /\ notified' = Append(notified, "setup_failed")
    /\ UNCHANGED <<config, extend_content, captcha_img,
                   old_expiry_time, new_expiry_time, gate, cache,
                   submitted, strategies, ts, cs, captcha_input, html>>

\* run(), step 2: login, and the exit when it returns False
RunLogin ==
    /\ pc = "login"
    /\ \E env \in LoginEnvs :
        LET r == login(env, error_message) IN
        /\ calls' = Append(calls, "login")
        /\ ret' = [ret EXCEPT !["login"] = B(r.ret)]
        /\ error_message' = r.error_message
        /\ submitted' = [submitted EXCEPT !.login = @ + r.clicks]
        /\ pc' = AfterLogin(r.ret)
        /\ IF r.ret
           THEN UNCHANGED <<renewal_status, readme, notified>>
           ELSE /\ renewal_status' = "Failed"
                /\ readme' = generate_readme("Failed", old_expiry_time,
                                              new_expiry_time, r.error_message)
                /\ notified' = Append(notified, "login_failed")
    /\ egress' = NoEgress
    /\ UNCHANGED <<config, extend_content, captcha_img,
                   old_expiry_time, new_expiry_time, gate, cache,
                   strategies, ts, cs, captcha_input, html>>

\* run(), step 3: get_expiry, its return value ignored
RunGetExpiry ==
    /\ pc = "get_expiry"
    /\ \E env \in ExpiryEnvs :
        LET r == get_expiry(env, old_expiry_time) IN
        /\ calls' = Append(calls, "get_expiry")
        /\ ret' = [ret EXCEPT !["get_expiry"] = B(r.ret)]
        /\ old_expiry_time' = r.old_expiry_time
    /\ pc' = "gate"
    /\ UNCHANGED <<config, extend_content, captcha_img,
                   renewal_status, new_expiry_time, error_message,
                   egress, gate, readme, cache, notified, submitted,
                   strategies, ts, cs, captcha_input, html>>

----------------------------------------------------------------------------
(* run(): the eligibility gate and what follows it.  The source of run()   *)
(* ends inside the branch taken when the gate finds the expiry too far     *)
(* away; the handler of the gate's try, the exit of that branch, the       *)
(* extend flow and the final report are modelled from the specification.   *)

\* After the gate: the too-early branch records the status and exits
\* without attempting renewal; the gate fails open in every other case
GateExits(decision) == decision = "unexpired"

\* run(), step 3.5
RunGate ==
    /\ pc = "gate"
    /\ \E utcHours \in GateClocks :
        LET d == GateDecision(old_expiry_time, utcHours) IN
        /\ gate' = [decision |-> d, fresh |-> TRUE, clock |-> utcHours]
        /\ IF d = "unexpired"
           THEN /\ renewal_status' = "Unexpired"
                /\ error_message' = "None"
           ELSE UNCHANGED <<renewal_status, error_message>>
        /\ IF GateExits(d)
           THEN /\ cache' = save_cache(renewal_status', old_expiry_time)
                /\ readme' = generate_readme(renewal_status', old_expiry_time,
                                              new_expiry_time, error_message')
                /\ notified' = Append(notified, "unexpired")
                /\ pc' = "done"
           ELSE /\ pc' = "open_extend"
                /\ UNCHANGED <<cache, readme, notified>>
    /\ UNCHANGED <<config, extend_content, captcha_img,
                   old_expiry_time, new_expiry_time, calls, ret, egress,
                   submitted, strategies, ts, cs, captcha_input, html>>

----------------------------------------------------------------------------
(* open_extend *)

\* Content of the page at Config.EXTEND_URL, as tokens:
\*   "continue_free_vps" = "引き続き無料VPSの利用を継続する" (the renewal control)
\*   "extend_limit"      = "延長期限"
\*   "until_limit"       = "期限まで"
ExtendContents ==
    { <<"text">>, <<"continue_free_vps">>, <<"extend_limit">>,
      <<"text", "until_limit">>, <<"continue_free_vps", "extend_limit">> }

\* Which of the clicks and navigations of one call of open_extend raise
ExtendEnvs ==
    [button_raises : BOOLEAN, link_raises : BOOLEAN, goto_raises : BOOLEAN,
     content : ExtendContents, button2_raises : BOOLEAN, link2_raises : BOOLEAN]

\* One strategy tried by open_extend and whether it went through
Step(name, ok) == [step |-> name, ok |-> ok]

\* The test for the limit texts taken as always true
LimitTextAlways(content) == TRUE

\* "延長期限" in content or "期限まで" in content
LimitText(content) ==
    Contains(content, <<"extend_limit">>) \/ Contains(content, <<"until_limit">>)

open_extend(env, status0) ==
    IF ~env.button_raises THEN
        [ret |-> TRUE, renewal_status |-> status0,
         tried |-> << Step("button", TRUE) >>]
    ELSE IF ~env.link_raises THEN
        [ret |-> TRUE, renewal_status |-> status0,
         tried |-> << Step("button", FALSE), Step("link", TRUE) >>]
    ELSE LET first == << Step("button", FALSE), Step("link", FALSE) >> IN
    IF env.goto_raises THEN
        [ret |-> FALSE, renewal_status |-> status0,
         tried |-> first \o << Step("goto", FALSE) >>]
    ELSE IF Contains(env.content, <<"continue_free_vps">>) THEN
        IF ~env.button2_raises THEN
            [ret |-> TRUE, renewal_status |-> status0,
             tried |-> first \o << Step("goto", TRUE), Step("button", TRUE) >>]
        ELSE IF ~env.link2_raises THEN
            [ret |-> TRUE, renewal_status |-> status0,
             tried |-> first \o << Step("goto", TRUE), Step("button", FALSE),
                                   Step("link", TRUE) >>]
        ELSE
            [ret |-> FALSE, renewal_status |-> status0,
             tried |-> first \o << Step("goto", TRUE), Step("button", FALSE),
                                   Step("link", FALSE) >>]
    ELSE IF LimitText(env.content) THEN
        [ret |-> FALSE, renewal_status |-> "Unexpired",
         tried |-> first \o << Step("goto", TRUE) >>]
    ELSE
        [ret |-> FALSE, renewal_status |-> status0,
         tried |-> first \o << Step("goto", TRUE) >>]

\* The final report of run(): cache snapshot, status document, notification
RunReport ==
    /\ pc = "report"
    /\ cache' = save_cache(renewal_status, old_expiry_time)
    /\ readme' = generate_readme(renewal_status, old_expiry_time,
                                  new_expiry_time, error_message)
    /\ notified' = Append(notified, renewal_status)
    /\ pc' = "done"
    /\ UNCHANGED <<config, extend_content, captcha_img,
                   renewal_status, old_expiry_time, new_expiry_time,
                   error_message, calls, ret, egress, gate, submitted,
                   strategies, ts, cs, captcha_input, html>>

\* run(), step 4: open_extend; a False return short-circuits to the report.
\* The specification does not say which status the run records when the
\* stage failed without setting one: it may keep the status or mark Failed.
RunOpenExtend ==
    /\ pc = "open_extend"
    /\ \E env \in ExtendEnvs, mark \in BOOLEAN :
        LET r == open_extend(env, renewal_status) IN
        /\ calls' = Append(calls, "open_extend")
        /\ ret' = [ret EXCEPT !["open_extend"] = B(r.ret)]
        /\ strategies' = r.tried
        /\ extend_content' =
               IF Len(r.tried) >= 3 /\ r.tried[3].ok
               THEN [read |-> TRUE, content |-> env.content] ELSE NoHtml
        /\ IF r.ret
           THEN /\ pc' = "submit_extend"
                /\ renewal_status' = r.renewal_status
                /\ UNCHANGED error_message
           ELSE /\ pc' = "report"
                /\ IF mark /\ r.renewal_status # "Unexpired"
                   THEN /\ renewal_status' = "Failed"
                        /\ error_message' = "open_extend_failed"
                   ELSE /\ renewal_status' = r.renewal_status
                        /\ UNCHANGED error_message
    /\ gate' = [NoGate EXCEPT !.decision = gate.decision]
    /\ UNCHANGED <<config, captcha_img, old_expiry_time, new_expiry_time, egress,
                   readme, cache, notified, submitted, ts, cs, captcha_input,
                   html>>

----------------------------------------------------------------------------
(* complete_turnstile_verification *)

\* max_wait as passed by submit_extend
TurnstileMaxWait == 90

\* Entry of the challenge solver: detection of the widget and the three
\* click methods.  m1, m2, m3: the method got as far as clicking.
TurnstileEnvs ==
    [detect : {"raise", "absent", "present"}, m1 : BOOLEAN, m2 : BOOLEAN,
     m3 : BOOLEAN]

turnstile_begin(env, max_wait) ==
    IF env.detect = "raise" THEN
        [returns |-> "False", ts |-> [NoTs EXCEPT !.max_wait = max_wait]]
    ELSE IF env.detect = "absent" THEN
        [returns |-> "True",
         ts |-> [NoTs EXCEPT !.max_wait = max_wait, !.detected = "False"]]
    ELSE
        [returns |-> "unset",
         ts |-> [NoTs EXCEPT !.max_wait = max_wait, !.detected = "True",
                             !.clicked = env.m1 \/ env.m2 \/ env.m3]]

\* One poll of the page: the evaluate raises, or reports the three signals;
\* reclick: the retry click finds a visible widget frame
PollEnvs ==
    [raises : BOOLEAN, hasToken : BOOLEAN, hasSuccessText : BOOLEAN,
     hasCheckmark : BOOLEAN, reclick : BOOLEAN]

\* "verified" computed from the token alone
VerifiedTokenOnly(env) == env.hasToken

\* "verified: hasToken || hasSuccessText || hasCheckmark"
Verified(env) == env.hasToken \/ env.hasSuccessText \/ env.hasCheckmark

\* "await asyncio.sleep(1)" at the head of each iteration
PollInterval == 1

\* One iteration of "for i in range(max_wait)"
turnstile_poll(t, env) ==
    IF env.raises THEN
        [returns |-> "False",
         ts |-> [t EXCEPT !.polls = @ + 1, !.slept = @ + PollInterval]]
    ELSE LET seen == [hasToken |-> env.hasToken,
                      hasSuccessText |-> env.hasSuccessText,
                      hasCheckmark |-> env.hasCheckmark] IN
    IF Verified(env) THEN
        [returns |-> "True",
         ts |-> [t EXCEPT !.polls = @ + 1, !.slept = @ + PollInterval,
                          !.seen = seen]]
    ELSE
        [returns |-> "unset",
         ts |-> [t EXCEPT !.polls = @ + 1, !.slept = @ + PollInterval,
                          !.seen = seen,
                          !.clicked = @ \/ (t.i % 20 = 10 /\ env.reclick),
                          !.i = @ + 1]]

\* After the loop: the last look at the response token
FinalEnvs == {"raise", "token", "empty"}

turnstile_final(t, env) ==
    IF env = "raise" THEN [returns |-> "False", ts |-> t]
    ELSE IF env = "token" THEN
        [returns |-> "True", ts |-> [t EXCEPT !.token_at_timeout = "True"]]
    ELSE [returns |-> "False", ts |-> [t EXCEPT !.token_at_timeout = "False"]]

\* The caller giving up when the challenge solver returns False
TurnstilePcFatal(r) ==
    IF r.returns = "False" THEN "report"
    ELSE IF r.returns = "True" THEN "captcha_img"
    ELSE IF r.ts.i < r.ts.max_wait THEN "ts_poll"
    ELSE "ts_final"

\* Where control goes after a step of the challenge solver
TurnstilePc(r) ==
    IF r.returns # "unset" THEN "captcha_img"
    ELSE IF r.ts.i < r.ts.max_wait THEN "ts_poll"
    ELSE "ts_final"

\* submit_extend up to and including the entry of the challenge solver
RunSubmitExtend ==
    /\ pc = "submit_extend"
    /\ \E env \in TurnstileEnvs :
        LET r == turnstile_begin(env, TurnstileMaxWait) IN
        /\ ts' = r.ts
        /\ ret' = [ret EXCEPT !["complete_turnstile_verification"] = r.returns]
        /\ pc' = TurnstilePc(r)
    /\ calls' = calls \o <<"submit_extend", "complete_turnstile_verification">>
    /\ strategies' = <<>>
    /\ extend_content' = NoHtml
    /\ UNCHANGED <<config, captcha_img, renewal_status, old_expiry_time,
                   new_expiry_time, error_message, egress, gate, readme, cache,
                   notified, submitted, cs, captcha_input, html>>

TurnstilePoll ==
    /\ pc = "ts_poll"
    /\ ts.i < ts.max_wait
    /\ \E env \in PollEnvs :
        LET r == turnstile_poll(ts, env) IN
        /\ ts' = r.ts
        /\ ret' = [ret EXCEPT !["complete_turnstile_verification"] = r.returns]
        /\ pc' = TurnstilePc(r)
    /\ UNCHANGED <<config, extend_content, captcha_img,
                   renewal_status, old_expiry_time, new_expiry_time,
                   error_message, calls, egress, gate, readme, cache, notified,
                   submitted, strategies, cs, captcha_input, html>>

TurnstileFinal ==
    /\ pc = "ts_final"
    /\ \E env \in FinalEnvs :
        LET r == turnstile_final(ts, env) IN
        /\ ts' = r.ts
        /\ ret' = [ret EXCEPT !["complete_turnstile_verification"] = r.returns]
        /\ pc' = "captcha_img"
    /\ UNCHANGED <<config, extend_content, captcha_img,
                   renewal_status, old_expiry_time, new_expiry_time,
                   error_message, calls, egress, gate, readme, cache, notified,
                   submitted, strategies, cs, captcha_input, html>>

----------------------------------------------------------------------------
(* CaptchaSolver *)

MaxRetries == 3

SleepSeconds == 2

MaxRespLen == 7

RespChars == {"1", "2", "a", " "}

RECURSIVE SeqsUpTo(_, _)
SeqsUpTo(S, n) ==
    IF n = 0 THEN { <<>> }
    ELSE LET shorter == SeqsUpTo(S, n - 1) IN
         shorter \cup { Append(q, c) : q \in { r \in shorter : Len(r) = n - 1 }, c \in S }

\* "123456 please retry", "1111", "12a45"
ExampleResponses ==
    { <<"1", "2", "3", "4", "5", "6", " ", "p", "l", "e", "a", "s", "e", " ",
        "r", "e", "t", "r", "y">>,
      <<"1", "1", "1", "1">>,
      <<"1", "2", "a", "4", "5">> }

\* Response texts of the recognition service
AllResponses == SeqsUpTo(RespChars, MaxRespLen) \cup ExampleResponses

RunResponses ==
    ExampleResponses \cup { <<" ", "2", "1", "1", "2", "1", "2", "1", "\n">>, <<>> }

\* What one request to the service comes to: a non-ok HTTP status, an
\* exception (timeout, connection), or a response text
SolveOutcomes(R) ==
    { [kind |-> "http_error", text |-> <<>>], [kind |-> "exception", text |-> <<>>] }
    \cup { [kind |-> "text", text |-> r] : r \in R }

\* re.findall(r'\d+', code)[0]; <<>> where findall returns no match
FirstDigitRun(code) ==
    IF ~(\E i \in 1..Len(code) : code[i] \in Digits) THEN <<>>
    ELSE LET a == CHOOSE i \in 1..Len(code) :
                      code[i] \in Digits /\ \A j \in 1..(i - 1) : code[j] \notin Digits
             b == CHOOSE k \in a..Len(code) :
                      /\ \A j \in a..k : code[j] \in Digits
                      /\ (k = Len(code) \/ code[k + 1] \notin Digits)
         IN  SubSeq(code, a, b)

\* code[:n]
Prefix(code, n) == SubSeq(code, 1, IF Len(code) < n THEN Len(code) ELSE n)

CodeMinLen == 4

CodeMaxLen == 6

\* len(code) >= 4 on the stripped response, and numbers[0][:6]
MinRespLen == 4

SliceLen == 6

\* The validation without the test for one repeated digit
_validate_code_repeats(code) ==
    IF code = <<>> THEN FALSE
    ELSE IF Len(code) < CodeMinLen \/ Len(code) > CodeMaxLen THEN FALSE
    ELSE IF ~IsDigits(code) THEN FALSE
    ELSE TRUE

_validate_code(code) ==
    IF code = <<>> THEN FALSE
    ELSE IF Len(code) < CodeMinLen \/ Len(code) > CodeMaxLen THEN FALSE
    ELSE IF Cardinality({ code[i] : i \in 1..Len(code) }) = 1 THEN FALSE
    ELSE IF ~IsDigits(code) THEN FALSE
    ELSE TRUE

\* The body of one iteration of the retry loop: the code it returns, or
\* <<>> where it raises
solve_attempt(o) ==
    IF o.kind # "text" THEN <<>>
    ELSE LET code == Strip(o.text) IN
         IF code # <<>> /\ Len(code) >= MinRespLen THEN
             LET run == FirstDigitRun(code) IN
             IF run # <<>> /\ _validate_code(Prefix(run, SliceLen))
             THEN Prefix(run, SliceLen)
             ELSE <<>>
         ELSE <<>>

\* solve(): entry; "import aiohttp" may fail, then solve returns None
SolveEnter ==
    /\ pc = "solve_enter"
    /\ \E ok \in BOOLEAN :
        IF ok THEN /\ cs' = [NoCs EXCEPT !.imported = "True"]
                   /\ pc' = "solve_call"
        ELSE /\ cs' = [NoCs EXCEPT !.imported = "False", !.returned = TRUE]
             /\ pc' = "solve_ret"
    /\ UNCHANGED <<config, extend_content, captcha_img,
                   renewal_status, old_expiry_time, new_expiry_time,
                   error_message, calls, ret, egress, gate, readme, cache,
                   notified, submitted, strategies, ts, captcha_input, html>>

\* The retry limit tested one failure late
ExhaustedLate(retry_count) == retry_count > MaxRetries

\* "if retry_count >= max_retries" in the handler of a failed request
Exhausted(retry_count) == retry_count >= MaxRetries

\* solve(): one iteration of "while retry_count < max_retries"
SolveCallFrom(R) ==
    /\ pc = "solve_call"
    /\ cs.retry_count < MaxRetries
    /\ \E o \in SolveOutcomes(R) :
        LET code == solve_attempt(o) IN
        IF code # <<>>
        THEN /\ cs' = [cs EXCEPT !.requests = @ + 1, !.response = o.text,
                                 !.outcome = o.kind, !.result = code,
                                 !.returned = TRUE]
             /\ pc' = "solve_ret"
        ELSE /\ cs' = [cs EXCEPT !.requests = @ + 1, !.response = o.text,
                                 !.outcome = o.kind, !.retry_count = @ + 1,
                                 !.returned = Exhausted(cs.retry_count + 1)]
             /\ pc' = IF Exhausted(cs.retry_count + 1)
                      THEN "solve_ret" ELSE "solve_sleep"
    /\ UNCHANGED <<config, extend_content, captcha_img,
                   renewal_status, old_expiry_time, new_expiry_time,
                   error_message, calls, ret, egress, gate, readme, cache,
                   notified, submitted, strategies, ts, captcha_input, html>>

SolveCall == SolveCallFrom(RunResponses)

\* solve(): the wait before the next request
SolveSleep ==
    /\ pc = "solve_sleep"
    /\ cs' = [cs EXCEPT !.waited = @ + SleepSeconds, !.response = NoneVal,
                        !.outcome = "unset"]
    /\ pc' = "solve_call"
    /\ UNCHANGED <<config, extend_content, captcha_img,
                   renewal_status, old_expiry_time, new_expiry_time,
                   error_message, calls, ret, egress, gate, readme, cache,
                   notified, submitted, strategies, ts, captcha_input, html>>

----------------------------------------------------------------------------
(* submit_extend: captcha, submission, classification *)

\* The except clause of submit_extend
SubmitRaises(exc) ==
    /\ renewal_status' = "Failed"
    /\ error_message' = exc
    /\ ret' = [ret EXCEPT !["submit_extend"] = "False"]
    /\ pc' = "report"

\* img.src as returned by the page; the script throws where there is no
\* image or no src, so the value returned is never empty
ImgSrcs == { <<"data:image">>, <<"https:">> }

\* The page at the captcha step: "found" (an img with a src), "missing"
\* (no img, or an img without src: the page script throws "未找到验证码图片"),
\* "error" (the evaluate raises for another reason)
ImgPages == {"found", "missing", "error"}

\* submit_extend, step 2: after the challenge solver returned, look for
\* the captcha image and call the recognition client
SubmitCaptchaImage ==
    /\ pc = "captcha_img"
    /\ ts' = NoTs
    /\ \E page \in ImgPages, src \in ImgSrcs, exc \in ExcTexts :
        /\ captcha_img' = page
        /\ IF page = "error" THEN
               /\ SubmitRaises(exc)
               /\ UNCHANGED cs
           ELSE IF page = "missing" THEN
               /\ SubmitRaises("no_captcha_image")
               /\ UNCHANGED cs
           ELSE IF src = NoneVal THEN
               /\ renewal_status' = "Unexpired"
               /\ ret' = [ret EXCEPT !["submit_extend"] = "False"]
               /\ pc' = "report"
               /\ UNCHANGED <<error_message, cs>>
           ELSE
               /\ pc' = "solve_enter"
               /\ cs' = NoCs
               /\ UNCHANGED <<renewal_status, error_message, ret>>
    /\ UNCHANGED <<config, extend_content, old_expiry_time, new_expiry_time, calls,
                   egress, gate, readme, cache, notified, submitted, strategies,
                   captcha_input, html>>

\* "if not code" taken as never true
SolveFailedIgnored(code) == FALSE

\* "if not code" on the result of solve()
SolveFailed(code) == code = NoneVal

\* submit_extend, step 3: the result of solve(), and filling the input
SubmitFill ==
    /\ pc = "solve_ret"
    /\ IF SolveFailed(cs.result) THEN
            /\ renewal_status' = "Failed"
            /\ error_message' = "captcha_failed"
            /\ ret' = [ret EXCEPT !["submit_extend"] = "False"]
            /\ pc' = "report"
            /\ UNCHANGED captcha_input
       ELSE \E raises \in BOOLEAN, exc \in ExcTexts :
            IF raises THEN
                /\ SubmitRaises(exc)
                /\ UNCHANGED captcha_input
            ELSE
                /\ captcha_input' = cs.result
                /\ pc' = "submit_click"
                /\ UNCHANGED <<renewal_status, error_message, ret>>
    /\ UNCHANGED <<config, extend_content, captcha_img,
                   old_expiry_time, new_expiry_time, calls, egress, gate,
                   readme, cache, notified, submitted, strategies, ts, cs, html>>

\* submit_extend, steps 4 and 5: the last look at the token, and the click
\* on the submit control.  clicked: the page script found a control.
SubmitClick ==
    /\ pc = "submit_click"
    /\ cs' = NoCs
    /\ \E raises \in BOOLEAN, clicked \in BOOLEAN, exc \in ExcTexts :
        IF raises THEN
            /\ SubmitRaises(exc)
            /\ UNCHANGED submitted
        ELSE IF ~clicked THEN
            /\ SubmitRaises("cannot_submit")
            /\ UNCHANGED submitted
        ELSE
            /\ submitted' = [submitted EXCEPT !.renewal = @ + 1]
            /\ pc' = "classify"
            /\ UNCHANGED <<renewal_status, error_message, ret>>
    /\ UNCHANGED <<config, extend_content, captcha_img,
                   old_expiry_time, new_expiry_time, calls, egress, gate,
                   readme, cache, notified, strategies, ts, captcha_input, html>>

\* Page content after the submission, as tokens:
\*   "entered"         = "入力された"
\*   "code_incorrect"  = "認証コードが正しくありません"
\*   "error"           = "エラー"
\*   "mistake"         = "間違"
\*   "completed"       = "完了"
\*   "continued"       = "継続"
\*   "finished"        = "完成"
\*   "renewed"         = "更新しました"
HtmlTokens ==
    {"entered", "code_incorrect", "error", "mistake", "completed", "continued",
     "finished", "renewed", "text"}

ErrorMarkers ==
    { <<"entered", "code_incorrect">>, <<"code_incorrect">>, <<"error">>,
      <<"mistake">> }

SuccessMarkers ==
    { <<"completed">>, <<"continued">>, <<"finished">>, <<"renewed">> }

MaxHtmlLen == 2

AllHtmls == SeqsUpTo(HtmlTokens, MaxHtmlLen)

RunHtmls ==
    { <<"text">>, <<"renewed">>, <<"code_incorrect">>, <<"renewed", "error">>,
      <<"completed">>, <<>> }

\* The classification testing the success texts first
ClassifySuccessFirst(content) ==
    IF \E m \in SuccessMarkers : Contains(content, m) THEN "Success"
    ELSE IF \E m \in ErrorMarkers : Contains(content, m) THEN "Failed"
    ELSE "Unknown"

\* The classification writing a status outside the enumeration
ClassifyOtherStatus(content) ==
    IF \E m \in ErrorMarkers : Contains(content, m) THEN "Error"
    ELSE IF \E m \in SuccessMarkers : Contains(content, m) THEN "Success"
    ELSE "Unknown"

\* The classification leaving content with both kinds of text undecided
ClassifyBothUnknown(content) ==
    IF (\E m \in ErrorMarkers : Contains(content, m))
           /\ (\E m \in SuccessMarkers : Contains(content, m)) THEN "Unknown"
    ELSE IF \E m \in ErrorMarkers : Contains(content, m) THEN "Failed"
    ELSE IF \E m \in SuccessMarkers : Contains(content, m) THEN "Success"
    ELSE "Unknown"

\* The classification of the page content
Classify(content) ==
    IF \E m \in ErrorMarkers : Contains(content, m) THEN "Failed"
    ELSE IF \E m \in SuccessMarkers : Contains(content, m) THEN "Success"
    ELSE "Unknown"

\* The expiry fields keeping the expiry read before the renewal as old
AfterSuccessKeepsOld(old0, r) ==
    [old_expiry_time |-> old0, new_expiry_time |-> r.old_expiry_time]

\* After Success: get_expiry has returned r, then
\* "self.new_expiry_time = self.old_expiry_time"
AfterSuccess(old0, r) ==
    [old_expiry_time |-> r.old_expiry_time, new_expiry_time |-> r.old_expiry_time]

\* submit_extend: reading the page after the submission, the
\* classification, and on success the second get_expiry
SubmitClassifyFrom(H) ==
    /\ pc = "classify"
    /\ \E raises \in BOOLEAN, exc \in ExcTexts, content \in H, env \in ExpiryEnvs :
        IF raises THEN
            /\ SubmitRaises(exc)
            /\ UNCHANGED <<html, old_expiry_time, new_expiry_time, calls>>
        ELSE
            LET c == Classify(content) IN
            /\ html' = [read |-> TRUE, content |-> content]
            /\ renewal_status' = c
            /\ pc' = "report"
            /\ IF c = "Failed" THEN
                   /\ error_message' = "captcha_or_turnstile_error"
                   /\ ret' = [ret EXCEPT !["submit_extend"] = "False"]
                   /\ UNCHANGED <<old_expiry_time, new_expiry_time, calls>>
               ELSE IF c = "Success" THEN
                   LET r == get_expiry(env, old_expiry_time) IN
                   /\ calls' = Append(calls, "get_expiry")
                   /\ old_expiry_time' = AfterSuccess(old_expiry_time, r).old_expiry_time
                   /\ new_expiry_time' = AfterSuccess(old_expiry_time, r).new_expiry_time
                   /\ ret' = [ret EXCEPT !["submit_extend"] = "True",
                                         !["get_expiry"] = B(r.ret)]
                   /\ UNCHANGED error_message
               ELSE
                   /\ ret' = [ret EXCEPT !["submit_extend"] = "False"]
                   /\ UNCHANGED <<error_message, old_expiry_time,
                                  new_expiry_time, calls>>
    /\ UNCHANGED <<config, extend_content, captcha_img,
                   egress, gate, readme, cache, notified, submitted,
                   strategies, ts, cs, captcha_input>>

SubmitClassify == SubmitClassifyFrom(RunHtmls)

Next ==
    \/ RunSetupBrowser
    \/ RunLogin
    \/ RunGetExpiry
    \/ RunGate
    \/ RunOpenExtend
    \/ RunSubmitExtend
    \/ TurnstilePoll
    \/ TurnstileFinal
    \/ SubmitCaptchaImage
    \/ SolveEnter
    \/ SolveCall
    \/ SolveSleep
    \/ SubmitFill
    \/ SubmitClick
    \/ SubmitClassify
    \/ RunReport

Spec == Init /\ [][Next]_vars

----------------------------------------------------------------------------
(* CaptchaSolver.solve and the classification on their full input sets,    *)
(* started from a state of the run in which they are called                *)

AtSubmitExtend ==
    /\ PROXY_SERVER = NoProxy
    /\ RUNNER_IP = NoneVal
    /\ renewal_status = "Unknown"
    /\ new_expiry_time = NoneVal
    /\ error_message = "None"
    /\ calls = <<"setup_browser", "login", "get_expiry", "open_extend",
                 "submit_extend", "complete_turnstile_verification">>
    /\ ret = [NoRet EXCEPT !["setup_browser"] = "True", !["login"] = "True",
                           !["get_expiry"] = B(old_expiry_time # NoneVal),
                           !["open_extend"] = "True",
                           !["complete_turnstile_verification"] = "True"]
    /\ egress = NoEgress
    /\ gate = [NoGate EXCEPT !.decision =
                   IF old_expiry_time = NoneVal THEN "skip" ELSE "eligible"]
    /\ readme = <<>>
    /\ cache = NoCache
    /\ notified = <<>>
    /\ strategies = <<>>
    /\ ts = NoTs
    /\ cs = NoCs
    /\ html = NoHtml
    /\ extend_content = NoHtml
    /\ captcha_img = "found"

InitSolve ==
    /\ pc = "solve_enter"
    /\ old_expiry_time = NoneVal
    /\ submitted = [login |-> 1, renewal |-> 0]
    /\ captcha_input = NoneVal
    /\ AtSubmitExtend

SolveCallAny == SolveCallFrom(AllResponses)

NextSolve ==
    \/ SolveEnter
    \/ SolveCallAny
    \/ SolveSleep

SpecSolve == InitSolve /\ [][NextSolve]_vars

InitClassify ==
    /\ pc = "classify"
    /\ old_expiry_time \in { NoneVal, <<"2", "0", "2", "4", "-", "0", "2", "-", "2", "8">> }
    /\ submitted = [login |-> 1, renewal |-> 1]
    /\ captcha_input = <<"1", "2", "3", "4", "5", "6">>
    /\ AtSubmitExtend

SubmitClassifyAny == SubmitClassifyFrom(AllHtmls)

NextClassify ==
    \/ SubmitClassifyAny
    \/ RunReport

SpecClassify == InitClassify /\ [][NextClassify]_vars

----------------------------------------------------------------------------
(* complete_turnstile_verification over a range of ceilings, started from  *)
(* the state in which submit_extend calls it.  Each step of the loop is    *)
(* an await that returns or raises, so the loop keeps being scheduled.     *)

MaxWaitBound == 12

InitTurnstile ==
    /\ \E max_wait \in 0..MaxWaitBound, env \in TurnstileEnvs :
        LET r == turnstile_begin(env, max_wait) IN
        /\ ts = r.ts
        /\ pc = TurnstilePc(r)
        /\ ret = [NoRet EXCEPT !["setup_browser"] = "True", !["login"] = "True",
                               !["get_expiry"] = "False",
                               !["open_extend"] = "True",
                               !["complete_turnstile_verification"] = r.returns]
    /\ PROXY_SERVER = NoProxy
    /\ RUNNER_IP = NoneVal
    /\ renewal_status = "Unknown"
    /\ old_expiry_time = NoneVal
    /\ new_expiry_time = NoneVal
    /\ error_message = "None"
    /\ calls = <<"setup_browser", "login", "get_expiry", "open_extend",
                 "submit_extend", "complete_turnstile_verification">>
    /\ egress = NoEgress
    /\ gate = [NoGate EXCEPT !.decision = "skip"]
    /\ readme = <<>>
    /\ cache = NoCache
    /\ notified = <<>>
    /\ submitted = [login |-> 1, renewal |-> 0]
    /\ strategies = <<>>
    /\ cs = NoCs
    /\ captcha_input = NoneVal
    /\ html = NoHtml
    /\ extend_content = NoHtml
    /\ captcha_img = "unset"

NextTurnstile ==
    \/ TurnstilePoll
    \/ TurnstileFinal

SpecTurnstile ==
    InitTurnstile /\ [][NextTurnstile]_vars /\ WF_vars(NextTurnstile)

----------------------------------------------------------------------------
(* Properties *)

Invoked(stage) == \E i \in 1..Len(calls) : calls[i] = stage

\* The status section headings of a document
Headings(doc) == { i \in 1..Len(doc) : doc[i].kind = "h2" }

\* The expiry date and today's date (UTC+9) as the gate sees them
GateExpiry == Strptime(old_expiry_time)

GateToday == (gate.clock + 9) \div 24

\* C1: once run() has parsed the expiry date, an expiry date of today
\* (UTC+9) plus 1 day lets the run continue to the extend flow; an expiry
\* date of today plus 2 days or later ends the run with status Unexpired
\* and neither open_extend nor submit_extend is invoked in that run.
C1_GateWindow ==
    (gate.fresh /\ old_expiry_time # NoneVal /\ GateExpiry.ok) =>
        /\ GateExpiry.date = GateToday + 1 =>
               /\ pc = "open_extend"
               /\ renewal_status = "Unknown"
        /\ GateExpiry.date >= GateToday + 2 =>
               /\ pc = "done"
               /\ renewal_status = "Unexpired"
               /\ ~Invoked("open_extend")
               /\ ~Invoked("submit_extend")

C1_Witness ==
    /\ gate.fresh /\ old_expiry_time # NoneVal /\ GateExpiry.ok
    /\ GateExpiry.date = GateToday + 2
    /\ gate.clock % 24 >= 15
    /\ pc = "done"
    /\ renewal_status = "Unexpired"

\* C2: with a proxy and a reference address configured and the browser's
\* egress address equal to the reference address, setup_browser returns
\* False with the proxy-ineffective message, the run ends Failed and login
\* is never attempted.
C2_ProxyIneffective ==
    (PROXY_SERVER.set /\ RUNNER_IP # NoneVal /\ egress.observed
        /\ egress.browser_ip = RUNNER_IP) =>
        /\ ret["setup_browser"] = "False"
        /\ error_message = "proxy_ineffective"
        /\ renewal_status = "Failed"
        /\ pc = "done"
        /\ ~Invoked("login")

C2_Witness ==
    /\ PROXY_SERVER.set /\ RUNNER_IP # NoneVal /\ egress.observed
    /\ egress.browser_ip = RUNNER_IP
    /\ ret["setup_browser"] = "False"
    /\ pc = "done"

\* C3 as stated: after the submission, content containing "更新しました"
\* yields Success, content containing "認証コードが正しくありません" yields
\* Failed, content containing neither yields Unknown.
C3_AsStated ==
    html.read =>
        /\ Contains(html.content, <<"renewed">>) => renewal_status = "Success"
        /\ Contains(html.content, <<"code_incorrect">>) => renewal_status = "Failed"
        /\ (~Contains(html.content, <<"renewed">>)
               /\ ~Contains(html.content, <<"code_incorrect">>)) =>
               renewal_status = "Unknown"

HasAny(content, tokens) == \E i \in 1..Len(content) : content[i] \in tokens

\* C3 (amended): content containing "認証コードが正しくありません" yields
\* Failed; content containing "更新しました" and none of the failure texts
\* ("認証コードが正しくありません", "エラー", "間違") yields Success; content
\* containing none of the failure texts and none of the success texts
\* ("完了", "継続", "完成", "更新しました") yields Unknown.
C3_Classification ==
    html.read =>
        /\ HasAny(html.content, {"code_incorrect"}) => renewal_status = "Failed"
        /\ (HasAny(html.content, {"renewed"})
               /\ ~HasAny(html.content, {"code_incorrect", "error", "mistake"})) =>
               renewal_status = "Success"
        /\ ~HasAny(html.content, {"code_incorrect", "error", "mistake",
                                   "completed", "continued", "finished", "renewed"}) =>
               renewal_status = "Unknown"

C3_Witness ==
    /\ html.read
    /\ html.content = <<"renewed", "text">>
    /\ renewal_status = "Success"
    /\ submitted.renewal = 1

\* The first run of digits of a text, cut to six characters
DigitRunAt(text, a, b) ==
    /\ a <= b
    /\ \A j \in a..b : text[j] \in Digits
    /\ \A j \in 1..(a - 1) : text[j] \notin Digits
    /\ (b = Len(text) \/ text[b + 1] \notin Digits)

ExpectedCode(text) ==
    IF \E a, b \in 1..Len(text) : DigitRunAt(text, a, b)
    THEN LET ab == CHOOSE ab \in (1..Len(text)) \X (1..Len(text)) :
                       DigitRunAt(text, ab[1], ab[2])
         IN  SubSeq(text, ab[1], IF ab[2] - ab[1] >= 6 THEN ab[1] + 5 ELSE ab[2])
    ELSE <<>>

Acceptable(code) ==
    /\ Len(code) \in 4..6
    /\ \A i \in 1..Len(code) : code[i] \in Digits
    /\ \E i, j \in 1..Len(code) : code[i] # code[j]

\* C4: for every response text, the code CaptchaSolver accepts is the first
\* run of digits of the response cut to 6 characters, and it is accepted
\* exactly when it has 4 to 6 characters, all digits, not all the same:
\* "123456 please retry" gives "123456", "1111" and "12a45" are rejected.
C4_CodeExtraction ==
    cs.outcome = "text" =>
        /\ (cs.result # <<>>) = Acceptable(ExpectedCode(cs.response))
        /\ cs.result # <<>> => cs.result = ExpectedCode(cs.response)
        /\ cs.response = <<"1", "2", "3", "4", "5", "6", " ", "p", "l", "e", "a",
                           "s", "e", " ", "r", "e", "t", "r", "y">> =>
               cs.result = <<"1", "2", "3", "4", "5", "6">>
        /\ cs.response \in { <<"1", "1", "1", "1">>, <<"1", "2", "a", "4", "5">> } =>
               cs.result = <<>>

C4_Witness ==
    /\ cs.outcome = "text"
    /\ cs.response = <<"1", "2", "3", "4", "5", "6", " ", "p", "l", "e", "a",
                       "s", "e", " ", "r", "e", "t", "r", "y">>
    /\ cs.result = <<"1", "2", "3", "4", "5", "6">>
    /\ cs.returned

\* What holds of the retry loop of solve() at every point: at most 3
\* requests, a 2-second wait after every failed request but the last, then
\* another request; the code returned is that of the first request whose
\* response passed validation, and no request follows it
RetryDiscipline ==
    /\ cs.requests <= 3
    /\ pc = "solve_call" =>
           /\ cs.requests = cs.retry_count
           /\ cs.waited = 2 * cs.retry_count
           /\ ~cs.returned
    /\ pc = "solve_sleep" =>
           /\ cs.requests = cs.retry_count
           /\ cs.retry_count < 3
           /\ cs.waited = 2 * (cs.retry_count - 1)
           /\ ~cs.returned
    /\ (cs.returned /\ cs.result # <<>>) =>
           /\ pc = "solve_ret"
           /\ cs.outcome = "text"
           /\ cs.result = ExpectedCode(cs.response)
           /\ Acceptable(cs.result)
           /\ cs.requests = cs.retry_count + 1
           /\ cs.waited = 2 * cs.retry_count
    /\ (cs.returned /\ cs.result = <<>> /\ cs.requests > 0) =>
           /\ cs.waited = 2 * (cs.requests - 1)
           /\ cs.outcome = "text" => ~Acceptable(ExpectedCode(cs.response))

\* C5 as stated: in one call of solve the service is called at most 3
\* times, every failed call but the last is followed by a 2-second wait
\* and another call, solve returns the code of the first call that passes
\* validation, and it returns no result exactly when all 3 calls fail.
C5_AsStated ==
    /\ RetryDiscipline
    /\ cs.returned =>
           ((cs.result = <<>>) = (cs.requests = 3 /\ cs.retry_count = 3))

\* C5 (amended): as stated, except that solve returns no result exactly
\* when all 3 calls fail or when the HTTP client library cannot be
\* imported, in which case no call is made.
C5_Retry ==
    /\ RetryDiscipline
    /\ cs.returned =>
           ((cs.result = <<>>) =
               \/ (cs.requests = 3 /\ cs.retry_count = 3)
               \/ (cs.imported = "False" /\ cs.requests = 0))

C5_Witness ==
    /\ cs.returned
    /\ cs.result = <<>>
    /\ cs.requests = 3
    /\ cs.waited = 4
    /\ pc = "solve_ret"

\* C6 as stated: for each of the four status values the status document
\* holds exactly one status section, the one defined for that value, so
\* that the four statuses have four distinct sections.
C6_AsStated ==
    readme # <<>> =>
        /\ Cardinality(Headings(readme)) = 1
        /\ \A s \in Statuses \ {renewal_status} :
               \A i \in Headings(readme) :
                   readme[i] # ReadmeSection(s, old_expiry_time, new_expiry_time,
                                             error_message)[1]

\* C6 (amended): the status document holds exactly one status section,
\* chosen by the status: the success section for Success, the not-yet-due
\* section for Unexpired, and one and the same failure section for Failed
\* and Unknown; three distinct sections exist, not four.
C6_OneSection ==
    readme # <<>> =>
        /\ Cardinality(Headings(readme)) = 1
        /\ \A i \in Headings(readme) :
               readme[i].text =
                   CASE renewal_status = "Success" -> "success"
                     [] renewal_status = "Unexpired" -> "unexpired"
                     [] renewal_status \in {"Failed", "Unknown"} -> "failed"

C6_Witness ==
    /\ readme # <<>>
    /\ renewal_status = "Failed"
    /\ ret["login"] = "False"
    /\ \E i \in Headings(readme) : readme[i].text = "failed"

\* C7: in every state of a run, whichever stage fails, renewal_status is
\* one of Unknown, Success, Unexpired, Failed.
C7_StatusEnum == renewal_status \in {"Unknown", "Success", "Unexpired", "Failed"}

C7_Witness ==
    /\ pc = "report"
    /\ html.read
    /\ renewal_status = "Failed"
    /\ ret["submit_extend"] = "False"

\* C8: when setup_browser returns False no later stage is invoked, when
\* login returns False no stage after login is invoked, and in both cases
\* the run ends with status Failed and the status document written.
C8_ShortCircuit ==
    /\ ret["setup_browser"] = "False" =>
           /\ calls = <<"setup_browser">>
           /\ pc = "done"
           /\ renewal_status = "Failed"
           /\ readme # <<>>
    /\ ret["login"] = "False" =>
           /\ calls = <<"setup_browser", "login">>
           /\ pc = "done"
           /\ renewal_status = "Failed"
           /\ readme # <<>>

C8_Witness ==
    /\ ret["setup_browser"] = "True"
    /\ ret["login"] = "False"
    /\ submitted.login = 1
    /\ pc = "done"

\* C9: when get_expiry failed or the expiry text is not a valid date, the
\* gate neither stops the run nor sets the status to Unexpired or Failed,
\* and the run proceeds to the extend flow.
C9_GateFailsOpen ==
    (gate.fresh /\ (old_expiry_time = NoneVal \/ ~GateExpiry.ok)) =>
        /\ pc = "open_extend"
        /\ renewal_status \notin {"Unexpired", "Failed"}
        /\ readme = <<>>

C9_Witness ==
    /\ gate.fresh
    /\ old_expiry_time = <<"2", "0", "2", "4", "-", "0", "2", "-", "3", "0">>
    /\ pc = "open_extend"

\* C10: the challenge solver returns True without click or poll when no
\* widget is detected; after the polling ceiling it returns True if a
\* response token is present; and whatever it returns, submit_extend goes
\* on to the captcha step without setting the status to Failed.
C10_ChallengeNotFatal ==
    /\ ts.detected = "False" =>
           /\ ret["complete_turnstile_verification"] = "True"
           /\ ~ts.clicked
           /\ ts.polls = 0
    /\ ts.token_at_timeout = "True" =>
           /\ ret["complete_turnstile_verification"] = "True"
           /\ ts.polls = 90
    /\ (ts # NoTs /\ ret["complete_turnstile_verification"] # "unset") =>
           /\ pc = "captcha_img"
           /\ renewal_status = "Unknown"
           /\ error_message = "None"
           /\ ret["submit_extend"] = "unset"

C10_Witness ==
    /\ ts.detected = "True"
    /\ ts.polls = 90
    /\ ts.token_at_timeout = "False"
    /\ ret["complete_turnstile_verification"] = "False"
    /\ pc = "captcha_img"

\* C11: when CaptchaSolver.solve returns no result, submit_extend returns
\* False with renewal_status Failed and error_message set to
\* "验证码识别失败"; the captcha input is not filled and the renewal form is
\* not submitted in that run.
C11_SolveNoneHardStop ==
    (cs.returned /\ cs.result = NoneVal /\ pc # "solve_ret") =>
        /\ pc \in {"report", "done"}
        /\ ret["submit_extend"] = "False"
        /\ renewal_status = "Failed"
        /\ error_message = "captcha_failed"
        /\ captcha_input = NoneVal
        /\ submitted.renewal = 0
        /\ ~html.read

C11_Witness ==
    /\ cs.returned
    /\ cs.result = NoneVal
    /\ cs.requests = MaxRetries
    /\ pc = "done"
    /\ notified = <<"Failed">>

\* C12 as stated: whenever a stage has returned False, a message is stored
\* in error_message.
C12_AsStated ==
    \A s \in Stages : ret[s] = "False" => error_message # "None"

\* C12 (amended): every stage returns a boolean; setup_browser and login
\* store a message whenever they return False, and submit_extend stores
\* one whenever it returns False with status Failed; get_expiry,
\* open_extend and complete_turnstile_verification store none when they
\* return False, nor does submit_extend when it returns False with status
\* Unknown.
C12_StageMessages ==
    /\ \A s \in Stages : ret[s] \in {"unset", "True", "False"}
    /\ ret["setup_browser"] = "False" =>
           error_message \in {"proxy_config_error", "proxy_ineffective"} \cup ExcTexts
    /\ ret["login"] = "False" => error_message \in {"login_error", "login_failed"}
    /\ pc = "gate" => error_message = "None"
    /\ ret["open_extend"] = "False" =>
           /\ error_message \in {"None", "open_extend_failed"}
           /\ error_message = "open_extend_failed" => renewal_status = "Failed"
    /\ pc \in {"ts_poll", "ts_final", "captcha_img"} => error_message = "None"
    /\ (ret["submit_extend"] = "False" /\ renewal_status = "Failed") =>
           error_message \in {"no_captcha_image", "captcha_failed", "cannot_submit",
                              "captcha_or_turnstile_error"} \cup ExcTexts
    /\ (ret["submit_extend"] = "False" /\ renewal_status = "Unknown") =>
           error_message = "None"

C12_Witness ==
    /\ ret["get_expiry"] = "False"
    /\ ret["complete_turnstile_verification"] = "False"
    /\ ret["submit_extend"] = "False"
    /\ renewal_status = "Unknown"
    /\ error_message = "None"
    /\ pc = "done"

\* The bound on the polls of the challenge solver, state by state
PollBound ==
    LET returned == ret["complete_turnstile_verification"] IN
    /\ ts.polls <= ts.max_wait
    /\ ts.slept = ts.polls * PollInterval
    /\ pc = "ts_poll" =>
           /\ ts.polls = ts.i /\ ts.i < ts.max_wait
           /\ ts.seen = NoSignals
           /\ returned = "unset"
    /\ pc = "ts_final" =>
           /\ ts.polls = ts.max_wait /\ ts.i = ts.max_wait
           /\ ts.seen = NoSignals
           /\ returned = "unset"
    /\ (pc = "captcha_img" /\ ts.detected = "True") =>
           /\ returned \in {"True", "False"}
           /\ (ts.seen # NoSignals) =
                  (returned = "True" /\ ts.token_at_timeout = "unset")
           /\ ts.seen # NoSignals => ts.polls = ts.i + 1
           /\ ts.token_at_timeout # "unset" => ts.polls = ts.max_wait

\* C13: complete_turnstile_verification(max_wait) sleeps one second before
\* each poll, polls at most max_wait times, returns True at the first poll
\* that reports a token, a success text or a checkmark, goes to the final
\* look at the token after the max_wait-th poll reported none, and always
\* returns.
C13_PollingTerminates ==
    /\ []PollBound
    /\ <>(pc = "captcha_img")

C13_Witness ==
    /\ pc = "captcha_img"
    /\ ts.max_wait = 11
    /\ ts.polls = 11
    /\ ts.clicked
    /\ ts.token_at_timeout = "False"
    /\ ret["complete_turnstile_verification"] = "False"

\* How many times a stage was called
Count(stage) == Cardinality({ i \in 1..Len(calls) : calls[i] = stage })

C15_AsStated ==
    captcha_img = "missing" =>
        /\ ret["submit_extend"] = "False"
        /\ renewal_status = "Unexpired"
        /\ cs.requests = 0
        /\ submitted.renewal = 0

\* The order in which open_extend goes through its strategies
StrategyOrder == <<"button", "link", "goto", "button", "link">>

\* C16: open_extend clicks the renewal button, then the renewal link, and
\* navigates to the extend URL only after both clicks failed; it returns
\* True exactly when the last thing it tried was a click that went through;
\* it leaves the status Unexpired exactly when the navigation went through
\* and the content lacks the renewal control text but contains "延長期限" or
\* "期限まで", and changes the status in no other case.
C16_StrategyOrder ==
    LET n == Len(strategies)
        control == Contains(extend_content.content, <<"continue_free_vps">>)
        limit == \/ Contains(extend_content.content, <<"extend_limit">>)
                 \/ Contains(extend_content.content, <<"until_limit">>)
    IN
    n > 0 =>
        /\ n <= 5
        /\ \A i \in 1..n : strategies[i].step = StrategyOrder[i]
        /\ \A i \in 1..(n - 1) : strategies[i].ok = (strategies[i].step = "goto")
        /\ extend_content.read = (n >= 3 /\ strategies[3].ok)
        /\ (n >= 4) = (extend_content.read /\ control)
        /\ (ret["open_extend"] = "True") =
               (strategies[n].ok /\ strategies[n].step \in {"button", "link"})
        /\ (renewal_status = "Unexpired") =
               (extend_content.read /\ ~control /\ limit)
        /\ renewal_status # "Unexpired" =>
               \/ renewal_status = "Unknown"
               \/ /\ renewal_status = "Failed"
                  /\ ret["open_extend"] = "False"
                  /\ error_message = "open_extend_failed"

C16_Witness ==
    /\ Len(strategies) = 3
    /\ extend_content = [read |-> TRUE, content |-> <<"text", "until_limit">>]
    /\ ret["open_extend"] = "False"
    /\ renewal_status = "Unexpired"
    /\ pc = "done"

\* C17: with a proxy and a reference address configured, when the lookup
\* of the browser's egress address raises, setup_browser returns True,
\* stores no error_message, leaves the status alone, and run() goes on to
\* login.
C17_EgressFailsOpen ==
    (PROXY_SERVER.set /\ RUNNER_IP # NoneVal /\ egress.lookup = "raised") =>
        /\ ret["setup_browser"] = "True"
        /\ error_message = "None"
        /\ renewal_status = "Unknown"
        /\ notified = <<>>
        /\ pc = "login"

C17_Witness ==
    /\ PROXY_SERVER.set
    /\ RUNNER_IP = <<"ipA">>
    /\ egress.lookup = "raised"
    /\ ~egress.observed
    /\ pc = "login"

\* The failure and success texts of the classification, as tokens
FailureTokens == {"code_incorrect", "error", "mistake"}

SuccessTokens == {"completed", "continued", "finished", "renewed"}

\* C18: after the submission, content with any of the failure texts is
\* classified Failed, also when it contains a success text; Success
\* requires a success text and no failure text.
C18_FailurePrecedence ==
    html.read =>
        /\ HasAny(html.content, FailureTokens) =>
               renewal_status = "Failed" /\ ret["submit_extend"] = "False"
        /\ (renewal_status = "Success") =
               (HasAny(html.content, SuccessTokens)
                    /\ ~HasAny(html.content, FailureTokens))
        /\ (renewal_status = "Success") = (ret["submit_extend"] = "True")

C18_Witness ==
    /\ html.read
    /\ html.content = <<"renewed", "error">>
    /\ renewal_status = "Failed"
    /\ error_message = "captcha_or_turnstile_error"

\* C19: the status is Success only where the renewal form was submitted
\* and the page read afterwards; the form is submitted only with a code in
\* the captcha input that solve() returned and that has 4 to 6 digits, not
\* all the same; before the submission no stage sets Success.
C19_SuccessOnlyAfterSubmit ==
    /\ renewal_status = "Success" =>
           /\ submitted.renewal = 1
           /\ html.read
           /\ pc \in {"report", "done"}
           /\ Invoked("submit_extend")
    /\ pc = "submit_click" =>
           /\ cs.returned
           /\ cs.result # NoneVal
           /\ captcha_input = cs.result
    /\ (pc = "submit_click" \/ submitted.renewal >= 1) =>
           Acceptable(captcha_input)
    /\ captcha_input # NoneVal => Invoked("submit_extend")

C19_Witness ==
    /\ renewal_status = "Success"
    /\ submitted.renewal = 1
    /\ captcha_input = <<"1", "2", "3", "4", "5", "6">>
    /\ pc = "done"

\* The value of an item of the status document
ReadmeValue(doc, text) ==
    { doc[i].value : i \in { j \in 1..Len(doc) : doc[j].text = text } }

\* C20: wherever the status is Success, new_expiry_time equals
\* old_expiry_time, and the cache snapshot and the status document written
\* by the report show that one date as the old and the new expiry.
C20_NewEqualsOld ==
    renewal_status = "Success" =>
        /\ new_expiry_time = old_expiry_time
        /\ pc = "done" =>
               /\ cache = [last_expiry |-> new_expiry_time, status |-> "Success",
                           written |-> TRUE]
               /\ ReadmeValue(readme, "old_expiry") = {new_expiry_time}
               /\ ReadmeValue(readme, "new_expiry") = {new_expiry_time}

C20_Witness ==
    /\ renewal_status = "Success"
    /\ pc = "done"
    /\ gate.decision = "eligible"
    /\ new_expiry_time = <<"2", "0", "2", "4", "-", "0", "3", "-", "0", "2">>
    /\ ret["get_expiry"] = "True"

====
